---- MODULE Spec2Model ----
(***************************************************************************)
(* Model of the email topic classifier service:                            *)
(*   app/models/similarity_model.py      EmailClassifierModel (topic       *)
(*                                        store and classifier)            *)
(*   app/services/email_topic_inference.py  EmailTopicInferenceService     *)
(*                                        (orchestrator, email log,        *)
(*                                        nearest-neighbour predictor)     *)
(*   app/api/routes.py                   the HTTP handlers                 *)
(*                                                                         *)
(* Python values are represented as follows.                               *)
(*   str        a sequence of one-character strings, so that lower(),      *)
(*              strip() and len() are computed and not assumed             *)
(*   dict       a sequence of entries [k |-> key, v |-> value] in          *)
(*              insertion order, keys pairwise distinct                    *)
(*   Optional   <<>> for None, <<x>> for the value x                       *)
(*   float      the average-embedding feature takes integer values; the    *)
(*              score math.exp(-distance / 50.0) is represented by an      *)
(*              integer that orders as the doubles do (see exp_scaled)     *)
(*   a JSON file   the value json.load returns for it (json.dump followed  *)
(*              by json.load keeps strings, integers, lists and the order  *)
(*              of a dict's keys)                                          *)
(***************************************************************************)
EXTENDS Integers, Sequences, FiniteSets, TLC

VARIABLES
    topic_file,    \* data/topic_keywords.json: dict name -> {"description": d}
    topic_data,    \* EmailClassifierModel.topic_data
    topics,        \* EmailClassifierModel.topics
    emails_file,   \* data/emails.json: absent, truncated, or the list under "emails"
    result,        \* what the last operation returned or raised
    assigned,      \* history: the ids _save_email has returned so far
    max_deleted,   \* history: an external deletion removed the record with the largest id
    pc,            \* concurrent callers of _save_email: where each one is
    local          \* concurrent callers of _save_email: the frame of each one

vars == <<topic_file, topic_data, topics, emails_file, result, assigned, max_deleted, pc, local>>

-----------------------------------------------------------------------------
(* Bounds of the model *)

\* The email log holds no more records than this.
MaxEmails == 2

\* No id larger than this is assigned.
MaxId == 3


-----------------------------------------------------------------------------
(* Python values *)

None == <<>>
Some(x) == <<x>>

\* str.lower() on one character
LowerChar(c) ==
    CASE c = "A" -> "a"
      [] c = "B" -> "b"
      [] OTHER -> c

\* str.lower()
lower(s) == [i \in 1..Len(s) |-> LowerChar(s[i])]

\* str.isspace() on one character
IsSpace(c) == c = " "

RECURSIVE lstrip(_)
lstrip(s) == IF s # <<>> /\ IsSpace(Head(s)) THEN lstrip(Tail(s)) ELSE s

RECURSIVE rstrip(_)
rstrip(s) ==
    IF s # <<>> /\ IsSpace(s[Len(s)]) THEN rstrip(SubSeq(s, 1, Len(s) - 1)) ELSE s

\* str.strip()
strip(s) == rstrip(lstrip(s))

\* bool(x) of an Optional[str]: None and "" are false
Truthy(opt) == opt # None /\ opt[1] # <<>>

\* list(d.keys())
Keys(d) == [i \in 1..Len(d) |-> d[i].k]

\* key in d
Has(d, key) == \E i \in 1..Len(d) : d[i].k = key

\* d[key]
Get(d, key) == d[CHOOSE i \in 1..Len(d) : d[i].k = key].v

\* d[key] = val: an existing key keeps its place, a new key goes last
Set(d, key, val) ==
    IF Has(d, key)
    THEN [i \in 1..Len(d) |-> IF d[i].k = key THEN [k |-> key, v |-> val] ELSE d[i]]
    ELSE Append(d, [k |-> key, v |-> val])

\* d.update(e)
RECURSIVE Update(_, _)
Update(d, e) ==
    IF e = <<>> THEN d ELSE Update(Set(d, Head(e).k, Head(e).v), Tail(e))

\* max(xs, default=0) of a set of integers
MaxOr0(S) == IF S = {} THEN 0 ELSE CHOOSE x \in S : \A y \in S : y <= x

-----------------------------------------------------------------------------
(* Inputs *)

\* Topic names a caller passes to add_topic
TopicNames == { <<"a">>, <<"A">>, <<"b">> }

\* Topic descriptions, of lengths 1 and 3
Descriptions == { <<"x">>, <<"x", "y", "z">> }

Entry(name, d) == [k |-> name, v |-> [description |-> d]]

\* Contents of data/topic_keywords.json when the process starts
InitialTopicFiles ==
    { <<>>,
      << Entry(<<"a">>, <<"x">>) >>,
      << Entry(<<"A">>, <<"x">>) >>,
      << Entry(<<"A">>, <<"x">>), Entry(<<"a">>, <<"x", "y", "z">>) >>,
      << Entry(<<"a">>, <<"x">>), Entry(<<"b">>, <<"x", "y", "z">>) >>,
      << Entry(<<"b">>, <<"x", "y", "z">>), Entry(<<"a">>, <<"x">>) >> }

-----------------------------------------------------------------------------
(* EmailClassifierModel: the topic store *)

(* The topic file is taken to exist and to hold valid JSON: _load_topic_data  *)
(* would raise otherwise, and _save_topic_data would print and write nothing. *)

\* _load_topic_data: json.load of the topic file
load_topic_data == topic_file

\* _save_topic_data(data): the file it leaves, having re-read the file, updated
\* what it read with all of data, and written that back
save_topic_data(file, data) == Update(file, data)

\* add_topic(topic_name, description) raises ValueError; data is self.topic_data
add_topic_exists(data, topic_name) == Has(data, lower(topic_name))

\* self.topic_data after add_topic(topic_name, description) went through
add_topic_data(data, topic_name, description) ==
    Set(data, lower(topic_name), [description |-> description])


-----------------------------------------------------------------------------
(* EmailClassifierModel: the classifier *)

EmbeddingKey == "email_embeddings_average_embedding"

\* features.get(key, default)
FeatureGet(features, key, default) ==
    IF Has(features, key) THEN Get(features, key) ELSE default

Abs(x) == IF x < 0 THEN -x ELSE x

\* From this distance on, math.exp(-distance / 50.0) is a subnormal double.
SubnormalFrom == 37000

\* From this distance on, math.exp(-distance / 50.0) is 0.0.
UnderflowFrom == 37257

\* math.exp(-distance / 50.0) in units of 2^-1074, the smallest positive double,
\* for the distances SubnormalFrom .. UnderflowFrom - 1
SubnormalExp ==
    << 85, 83, 81, 80, 78, 77, 75, 74, 72, 71, 69, 68, 67, 65, 64, 63,
       62, 60, 59, 58, 57, 56, 55, 54, 52, 51, 50, 49, 48, 47, 47, 46,
       45, 44, 43, 42, 41, 40, 40, 39, 38, 37, 37, 36, 35, 34, 34, 33,
       32, 32, 31, 31, 30, 29, 29, 28, 28, 27, 27, 26, 26, 25, 25, 24,
       24, 23, 23, 22, 22, 21, 21, 20, 20, 20, 19, 19, 19, 18, 18, 17,
       17, 17, 16, 16, 16, 15, 15, 15, 15, 14, 14, 14, 13, 13, 13, 13,
       12, 12, 12, 12, 11, 11, 11, 11, 11, 10, 10, 10, 10, 10, 9, 9,
       9, 9, 9, 9, 8, 8, 8, 8, 8, 8, 7, 7, 7, 7, 7, 7,
       7, 6, 6, 6, 6, 6, 6, 6, 6, 5, 5, 5, 5, 5, 5, 5,
       5, 5, 5, 4, 4, 4, 4, 4, 4, 4, 4, 4, 4, 4, 4, 4,
       3, 3, 3, 3, 3, 3, 3, 3, 3, 3, 3, 3, 3, 3, 3, 3,
       3, 2, 2, 2, 2, 2, 2, 2, 2, 2, 2, 2, 2, 2, 2, 2,
       2, 2, 2, 2, 2, 2, 2, 2, 2, 2, 1, 1, 1, 1, 1, 1,
       1, 1, 1, 1, 1, 1, 1, 1, 1, 1, 1, 1, 1, 1, 1, 1,
       1, 1, 1, 1, 1, 1, 1, 1, 1, 1, 1, 1, 1, 1, 1, 1,
       1, 1, 1, 1, 1, 1, 1, 1, 1, 1, 1, 1, 1, 1, 1, 1,
       1 >>

\* math.exp(-distance / scale) with scale = 50.0, for an integer distance >= 0.
\* The double is represented by an integer that orders as the doubles do: 0 for
\* 0.0, the multiple of 2^-1074 for a subnormal result, and above them one step
\* per unit of distance (below SubnormalFrom the results of neighbouring integer
\* distances are distinct doubles, their ratio being exp(-1/50)).
exp_scaled(distance) ==
    IF distance >= UnderflowFrom THEN 0
    ELSE IF distance >= SubnormalFrom THEN SubnormalExp[distance - SubnormalFrom + 1]
    ELSE SubnormalExp[1] + (SubnormalFrom - distance)

\* _calculate_topic_score(features, topic)
calculate_topic_score(features, topic) ==
    LET email_embedding == FeatureGet(features, EmbeddingKey, 0)
        topic_description == Get(topic_data, topic).description
        topic_embedding == Len(topic_description)
        distance == Abs(email_embedding - topic_embedding)
    IN  exp_scaled(distance)

\* get_topic_scores(features): dict topic -> score, in the order of self.topics
get_topic_scores(features) ==
    [i \in 1..Len(topics) |-> [k |-> topics[i], v |-> calculate_topic_score(features, topics[i])]]

\* max(scores, key=scores.get) raises ValueError on an empty dict
predict_raises == topics = <<>>

\* predict(features): max(scores, key=scores.get), the first key of the largest score
predict(features) ==
    LET scores == get_topic_scores(features)
        best == CHOOSE i \in 1..Len(scores) :
                    /\ \A j \in 1..Len(scores) : scores[j].v <= scores[i].v
                    /\ \A j \in 1..(i - 1) : scores[j].v < scores[i].v
    IN  scores[best].k

-----------------------------------------------------------------------------
(* EmailTopicInferenceService: the email log *)

\* data/emails.json
FileAbsent == [exists |-> FALSE, valid |-> FALSE, emails |-> <<>>]
\* ... just opened with mode "w": truncated, nothing written yet
FileTruncated == [exists |-> TRUE, valid |-> FALSE, emails |-> <<>>]
\* ... holding {"emails": emails}
FileJson(emails) == [exists |-> TRUE, valid |-> TRUE, emails |-> emails]

\* json.load raises JSONDecodeError
read_raises(file) == file.exists /\ ~file.valid

\* _read_emails().get("emails", []), and the same lines of _save_email
read_emails(file) == IF ~file.exists THEN <<>> ELSE file.emails

\* the record store_email builds
Record(email, gt, features) ==
    [id |-> 0, subject |-> email.subject, body |-> email.body,
     ground_truth_topic |-> gt, features |-> features]

Ids(emails) == { emails[i].id : i \in 1..Len(emails) }

\* new_id counted from the number of records instead of the largest id
new_id_by_count(emails) == Len(emails) + 1

\* new_id of _save_email
new_id(emails) == MaxOr0(Ids(emails)) + 1

\* The bounds of the model leave room for one more record.
CanAppend(emails) == Len(emails) < MaxEmails /\ new_id(emails) <= MaxId

\* _save_email putting the record first instead of last
save_email_prepend(emails, record) ==
    <<[record EXCEPT !.id = new_id(emails)]>> \o emails

\* the list _save_email writes back
save_email(emails, record) ==
    Append(emails, [record EXCEPT !.id = new_id(emails)])

-----------------------------------------------------------------------------
(* EmailTopicInferenceService: store_email's ground truth *)

\* {t.lower(): t for t in self.model.topics}
RECURSIVE LowerMapping(_)
LowerMapping(ts) ==
    IF ts = <<>> THEN <<>>
    ELSE LET front == SubSeq(ts, 1, Len(ts) - 1)
             t == ts[Len(ts)]
         IN  Set(LowerMapping(front), lower(t), t)

\* key of store_email without the lower-casing
ground_truth_key_no_lower(label) == strip(label)

\* key of store_email
ground_truth_key(label) == lower(strip(label))

\* store_email raises HTTPException(422); ts is self.model.topics
ground_truth_raises(ts, ground_truth_topic) ==
    /\ Truthy(ground_truth_topic)
    /\ ~Has(LowerMapping(ts), ground_truth_key(ground_truth_topic[1]))

\* gt of store_email
ground_truth(ts, ground_truth_topic) ==
    IF Truthy(ground_truth_topic)
    THEN Some(Get(LowerMapping(ts), ground_truth_key(ground_truth_topic[1])))
    ELSE None

-----------------------------------------------------------------------------
(* EmailTopicInferenceService: the nearest-neighbour predictor *)

\* the loop of _predict_from_store with <= in place of <
RECURSIVE scan_store_last_wins(_, _, _, _)
scan_store_last_wins(emails, feat_val, best_topic, best_dist) ==
    IF emails = <<>> THEN best_topic
    ELSE LET email == Head(emails)
             gt == email.ground_truth_topic
             rec_feats == email.features
         IN  IF ~Truthy(gt) \/ ~Has(rec_feats, EmbeddingKey)
             THEN scan_store_last_wins(Tail(emails), feat_val, best_topic, best_dist)
             ELSE LET dist == Abs(feat_val - Get(rec_feats, EmbeddingKey))
                  IN  IF best_dist = None \/ dist <= best_dist[1]
                      THEN scan_store_last_wins(Tail(emails), feat_val, gt, Some(dist))
                      ELSE scan_store_last_wins(Tail(emails), feat_val, best_topic, best_dist)

\* the loop of _predict_from_store; best_dist = None stands for float("inf")
RECURSIVE scan_store(_, _, _, _)
scan_store(emails, feat_val, best_topic, best_dist) ==
    IF emails = <<>> THEN best_topic
    ELSE LET email == Head(emails)
             gt == email.ground_truth_topic
             rec_feats == email.features
         IN  IF ~Truthy(gt) THEN scan_store(Tail(emails), feat_val, best_topic, best_dist)
             ELSE IF ~Has(rec_feats, EmbeddingKey)
             THEN scan_store(Tail(emails), feat_val, best_topic, best_dist)
             ELSE LET dist == Abs(feat_val - Get(rec_feats, EmbeddingKey))
                  IN  IF best_dist = None \/ dist < best_dist[1]
                      THEN scan_store(Tail(emails), feat_val, gt, Some(dist))
                      ELSE scan_store(Tail(emails), feat_val, best_topic, best_dist)

\* _predict_from_store(features): Optional[str]
predict_from_store(features) ==
    IF ~Has(features, EmbeddingKey) THEN None
    ELSE scan_store(read_emails(emails_file), Get(features, EmbeddingKey), None, None)


-----------------------------------------------------------------------------
(* EmailTopicInferenceService: classify_email *)

\* classify_email preferring the classifier: model_pred or store_topic
classify_email_model_first(features, use_store) ==
    [predicted_topic |-> predict(features), topic_scores |-> get_topic_scores(features),
     features |-> features, available_topics |-> topics]

\* classify_email(email, use_store), features being those of the email
classify_email(features, use_store) ==
    LET model_pred == predict(features)
        topic_scores == get_topic_scores(features)
        store_topic == predict_from_store(features)
        predicted_topic ==
            IF use_store
            THEN IF Truthy(store_topic) THEN store_topic[1] ELSE model_pred
            ELSE model_pred
    IN  [predicted_topic |-> predicted_topic, topic_scores |-> topic_scores,
         features |-> features, available_topics |-> topics]

-----------------------------------------------------------------------------
(* HTTP *)

\* a handler that returns normally
HTTP_200_OK == 200
\* status.HTTP_422_UNPROCESSABLE_ENTITY
HTTP_422_UNPROCESSABLE_ENTITY == 422
\* HTTPException(status_code=500, ...)
HTTP_500 == 500

\* The parameters classify_email(self, email, use_store) requires after self.
ClassifyEmailParams == <<"email", "use_store">>

\* The arguments of inference_service.classify_email(email) in the route.
route_classify_args(email) == <<email>>

\* A call with fewer positional arguments than required parameters raises TypeError.
call_raises(params, args) == Len(args) < Len(params)

-----------------------------------------------------------------------------
(* More inputs *)

Emails == { [subject |-> "s", body |-> "b"] }

\* Values of the average-embedding feature
EmbeddingValues == { 0, 2, 40000 }

\* Feature mappings: without the average embedding, and with it
FeatureMaps ==
    { <<>> } \cup { << [k |-> EmbeddingKey, v |-> x] >> : x \in EmbeddingValues }

\* Feature mappings of the emails that are stored
StoreFeatureMaps ==
    { <<>> } \cup { << [k |-> EmbeddingKey, v |-> x] >> : x \in { 0, 2 } }

\* ground_truth_topic of a store request: None, "", "a", "A", " a", "b", " "
Labels ==
    { None, Some(<<>>), Some(<<"a">>), Some(<<"A">>), Some(<<" ", "a">>),
      Some(<<"b">>), Some(<<" ">>) }

\* ground_truth_topic of the stored emails that classification draws on
FewLabels == { None, Some(<<"a">>), Some(<<"b">>) }

\* Smaller sets of both, for the specifications with more going on
FewFeatureMaps == { <<>>, << [k |-> EmbeddingKey, v |-> 0] >> }
ConcLabels == { None, Some(<<"a">>) }

\* The concurrent callers of store_email
Procs == { 1, 2 }

NoFrame == [record |-> Record([subject |-> "", body |-> ""], None, <<>>),
            data |-> <<>>, id |-> 0, raised |-> FALSE]

-----------------------------------------------------------------------------
(* The state after construction *)

Init ==
    /\ topic_file \in InitialTopicFiles
    /\ topic_data = topic_file
    /\ topics = Keys(topic_data)
    /\ emails_file \in { FileAbsent, FileJson(<<>>) }
    /\ result = [op |-> "init"]
    /\ assigned = {}
    /\ max_deleted = FALSE
    /\ pc = [p \in Procs |-> "idle"]
    /\ local = [p \in Procs |-> NoFrame]

-----------------------------------------------------------------------------
(* Topic store operations *)

\* EmailClassifierModel.__init__: a new service instance loads the topic file
Load ==
    /\ topic_data' = load_topic_data
    /\ topics' = Keys(load_topic_data)
    /\ result' = [op |-> "load"]
    /\ UNCHANGED <<topic_file, emails_file, assigned, max_deleted, pc, local>>

\* EmailTopicInferenceService.add_topic -> EmailClassifierModel.add_topic
AddTopic(topic_name, description) ==
    IF add_topic_exists(topic_data, topic_name)
    THEN /\ result' = [op |-> "add_topic", topic_name |-> topic_name,
                       raised |-> TRUE, available_topics |-> topics]
         /\ UNCHANGED <<topic_file, topic_data, topics, emails_file, assigned,
                        max_deleted, pc, local>>
    ELSE /\ topic_data' = add_topic_data(topic_data, topic_name, description)
         /\ topic_file' = save_topic_data(topic_file, topic_data')
         /\ topics' = Keys(topic_data')
         /\ result' = [op |-> "add_topic", topic_name |-> topic_name,
                       raised |-> FALSE, available_topics |-> topics']
         /\ UNCHANGED <<emails_file, assigned, max_deleted, pc, local>>

\* POST /topics: a new service instance, add_topic, any exception becomes a 500
RouteAddTopics(name, description) ==
    /\ topic_data' =
           IF add_topic_exists(load_topic_data, name) THEN load_topic_data
           ELSE add_topic_data(load_topic_data, name, description)
    /\ topic_file' =
           IF add_topic_exists(load_topic_data, name) THEN topic_file
           ELSE save_topic_data(topic_file, topic_data')
    /\ topics' = Keys(topic_data')
    /\ result' = [op |-> "POST /topics", topic_name |-> name,
                  status |-> IF add_topic_exists(load_topic_data, name)
                             THEN HTTP_500 ELSE HTTP_200_OK,
                  available_topics |-> topics']
    /\ UNCHANGED <<emails_file, assigned, max_deleted, pc, local>>

\* Another writer of data/topic_keywords.json sets one entry of it
ExternalTopicWrite(name, description) ==
    /\ topic_file' = Set(topic_file, name, [description |-> description])
    /\ topic_file' # topic_file
    /\ result' = [op |-> "external_topic_write", topic_name |-> name]
    /\ UNCHANGED <<topic_data, topics, emails_file, assigned, max_deleted, pc, local>>

-----------------------------------------------------------------------------
(* Email log operations *)

\* EmailTopicInferenceService.store_email(email, ground_truth_topic)
StoreEmail(email, features, ground_truth_topic) ==
    IF ground_truth_raises(topics, ground_truth_topic)
    THEN /\ result' = [op |-> "store_email", email |-> email, features |-> features,
                       label |-> ground_truth_topic,
                       raised |-> HTTP_422_UNPROCESSABLE_ENTITY, id |-> 0]
         /\ UNCHANGED <<topic_file, topic_data, topics, emails_file, assigned,
                        max_deleted, pc, local>>
    ELSE LET emails == read_emails(emails_file)
             record == Record(email, ground_truth(topics, ground_truth_topic), features)
         IN  /\ CanAppend(emails)
             /\ emails_file' = FileJson(save_email(emails, record))
             /\ result' = [op |-> "store_email", email |-> email, features |-> features,
                           label |-> ground_truth_topic,
                           raised |-> 0, id |-> new_id(emails)]
             /\ assigned' = assigned \cup { new_id(emails) }
             /\ UNCHANGED <<topic_file, topic_data, topics, max_deleted, pc, local>>

\* POST /emails: a new service instance, store_email; HTTPException passes through
RouteStoreEmail(email, features, ground_truth_topic) ==
    /\ topic_data' = load_topic_data
    /\ topics' = Keys(load_topic_data)
    /\ IF ground_truth_raises(topics', ground_truth_topic)
       THEN /\ result' = [op |-> "POST /emails", email |-> email, features |-> features,
                          label |-> ground_truth_topic,
                          status |-> HTTP_422_UNPROCESSABLE_ENTITY, email_id |-> 0]
            /\ UNCHANGED <<emails_file, assigned>>
       ELSE LET emails == read_emails(emails_file)
                record == Record(email, ground_truth(topics', ground_truth_topic), features)
            IN  /\ CanAppend(emails)
                /\ emails_file' = FileJson(save_email(emails, record))
                /\ result' = [op |-> "POST /emails", email |-> email, features |-> features,
                              label |-> ground_truth_topic,
                              status |-> HTTP_200_OK, email_id |-> new_id(emails)]
                /\ assigned' = assigned \cup { new_id(emails) }
    /\ UNCHANGED <<topic_file, max_deleted, pc, local>>

\* Someone else removes the i-th record of data/emails.json
ExternalDeleteEmail(i) ==
    LET emails == read_emails(emails_file)
    IN  /\ i \in 1..Len(emails)
        /\ emails_file' =
               FileJson([j \in 1..(Len(emails) - 1) |->
                            IF j < i THEN emails[j] ELSE emails[j + 1]])
        /\ max_deleted' = (max_deleted \/ emails[i].id = MaxOr0(Ids(emails)))
        /\ result' = [op |-> "external_delete", id |-> emails[i].id]
        /\ UNCHANGED <<topic_file, topic_data, topics, assigned, pc, local>>

-----------------------------------------------------------------------------
(* Classification operations *)

\* EmailTopicInferenceService.classify_email(email, use_store)
Classify(features, use_store) ==
    /\ result' =
           IF predict_raises
           THEN [op |-> "classify_email", features |-> features,
                 use_store |-> use_store, raised |-> TRUE,
                 model_pred |-> <<>>, store_topic |-> None,
                 predicted_topic |-> <<>>, topic_scores |-> <<>>,
                 available_topics |-> <<>>]
           ELSE [op |-> "classify_email", features |-> features,
                 use_store |-> use_store, raised |-> FALSE,
                 model_pred |-> predict(features),
                 store_topic |-> IF use_store THEN predict_from_store(features) ELSE None,
                 predicted_topic |-> classify_email(features, use_store).predicted_topic,
                 topic_scores |-> classify_email(features, use_store).topic_scores,
                 available_topics |-> classify_email(features, use_store).available_topics]
    /\ UNCHANGED <<topic_file, topic_data, topics, emails_file, assigned,
                   max_deleted, pc, local>>

\* POST /emails/classify: a new service instance, classify_email(email); any
\* exception becomes a 500
RouteClassify(email, features) ==
    /\ topic_data' = load_topic_data
    /\ topics' = Keys(load_topic_data)
    /\ UNCHANGED <<topic_file, emails_file, assigned, max_deleted, pc, local>>
    /\ result' =
           IF call_raises(ClassifyEmailParams, route_classify_args(email))
              \/ predict_raises'
           THEN [op |-> "POST /emails/classify", features |-> features,
                 status |-> HTTP_500, predicted_topic |-> <<>>,
                 topic_scores |-> <<>>, available_topics |-> <<>>]
           ELSE [op |-> "POST /emails/classify", features |-> features,
                 status |-> HTTP_200_OK,
                 predicted_topic |->
                     classify_email(features, route_classify_args(email)[2])'.predicted_topic,
                 topic_scores |->
                     classify_email(features, route_classify_args(email)[2])'.topic_scores,
                 available_topics |->
                     classify_email(features, route_classify_args(email)[2])'.available_topics]


-----------------------------------------------------------------------------
(* store_email called by two callers at once.  _save_email reads the file     *)
(* (lines 121-125), computes the id and the new list from what it read        *)
(* (127-130), opens the file for writing, which truncates it (132), and       *)
(* writes the list (133).                                                     *)

\* store_email up to json.load of _save_email
ConcRead(p, email, features, ground_truth_topic) ==
    /\ pc[p] \in { "idle", "done" }
    /\ ~ground_truth_raises(topics, ground_truth_topic)
    /\ ~read_raises(emails_file)
    /\ CanAppend(read_emails(emails_file))
    /\ local' = [local EXCEPT ![p] =
                    [record |-> Record(email, ground_truth(topics, ground_truth_topic), features),
                     data |-> read_emails(emails_file), id |-> 0, raised |-> FALSE]]
    /\ pc' = [pc EXCEPT ![p] = "read"]
    /\ UNCHANGED <<topic_file, topic_data, topics, emails_file, result, assigned,
                   max_deleted>>

\* json.load of _save_email finds the file another caller has just truncated
ConcReadFails(p) ==
    /\ pc[p] \in { "idle", "done" }
    /\ read_raises(emails_file)
    /\ local' = [local EXCEPT ![p] = [NoFrame EXCEPT !.raised = TRUE]]
    /\ pc' = [pc EXCEPT ![p] = "idle"]
    /\ UNCHANGED <<topic_file, topic_data, topics, emails_file, result, assigned,
                   max_deleted>>

\* new_id, record["id"], emails.append(record), open(self._emails_file, "w")
ConcOpen(p) ==
    /\ pc[p] = "read"
    /\ local' = [local EXCEPT ![p].id = new_id(local[p].data)]
    /\ emails_file' = FileTruncated
    /\ pc' = [pc EXCEPT ![p] = "open"]
    /\ UNCHANGED <<topic_file, topic_data, topics, result, assigned, max_deleted>>

\* ConcDump keeping the record the other caller wrote from the same contents
conc_written_merged(p) ==
    LET q == CHOOSE q \in Procs : q # p
    IN  IF pc[q] = "done" /\ local[q].data = local[p].data
        THEN Append(save_email(local[q].data, local[q].record), local[p].record)
        ELSE save_email(local[p].data, local[p].record)

\* what ConcDump writes: the list this caller read, plus its own record
conc_written(p) == save_email(local[p].data, local[p].record)

\* json.dump({"emails": emails}, f), close, return new_id
ConcDump(p) ==
    /\ pc[p] = "open"
    /\ emails_file' = FileJson(conc_written(p))
    /\ pc' = [pc EXCEPT ![p] = "done"]
    /\ UNCHANGED <<topic_file, topic_data, topics, result, assigned, max_deleted, local>>

-----------------------------------------------------------------------------
(* Specifications *)

\* The topic store, with another writer of the topic file
NextTopics ==
    \/ Load
    \/ \E n \in TopicNames, d \in Descriptions : AddTopic(n, d)
    \/ \E n \in TopicNames, d \in Descriptions : RouteAddTopics(n, d)
    \/ \E n \in TopicNames, d \in Descriptions : ExternalTopicWrite(n, d)

SpecTopics == Init /\ [][NextTopics]_vars

\* The email log written by one caller after another, nobody else touching it
NextSeq ==
    \/ \E e \in Emails, f \in StoreFeatureMaps, g \in Labels : StoreEmail(e, f, g)
    \/ \E e \in Emails, f \in StoreFeatureMaps, g \in Labels : RouteStoreEmail(e, f, g)

SpecSeq == Init /\ [][NextSeq]_vars

\* The email log, with records deleted from outside
NextLog ==
    \/ \E e \in Emails, f \in StoreFeatureMaps, g \in FewLabels : StoreEmail(e, f, g)
    \/ \E e \in Emails, f \in StoreFeatureMaps, g \in FewLabels : RouteStoreEmail(e, f, g)
    \/ \E i \in 1..MaxEmails : ExternalDeleteEmail(i)

SpecLog == Init /\ [][NextLog]_vars

\* Classification over a growing email log
NextClassify ==
    \/ \E e \in Emails, f \in StoreFeatureMaps, g \in FewLabels : StoreEmail(e, f, g)
    \/ \E f \in FeatureMaps, u \in BOOLEAN : Classify(f, u)
    \/ \E e \in Emails, f \in FeatureMaps : RouteClassify(e, f)

SpecClassify == Init /\ [][NextClassify]_vars

\* Two concurrent callers of store_email
NextConc ==
    \E p \in Procs :
        \/ \E e \in Emails, f \in FewFeatureMaps, g \in ConcLabels : ConcRead(p, e, f, g)
        \/ ConcReadFails(p)
        \/ ConcOpen(p)
        \/ ConcDump(p)

SpecConc == Init /\ [][NextConc]_vars

\* The whole service, one request after another, nobody else touching the files
Next ==
    \/ Load
    \/ \E n \in TopicNames, d \in Descriptions : AddTopic(n, d)
    \/ \E n \in TopicNames, d \in Descriptions : RouteAddTopics(n, d)
    \/ \E e \in Emails, f \in FewFeatureMaps, g \in FewLabels : StoreEmail(e, f, g)
    \/ \E e \in Emails, f \in FewFeatureMaps, g \in FewLabels : RouteStoreEmail(e, f, g)
    \/ \E f \in FeatureMaps, u \in BOOLEAN : Classify(f, u)
    \/ \E e \in Emails, f \in FeatureMaps : RouteClassify(e, f)

Spec == Init /\ [][Next]_vars


-----------------------------------------------------------------------------
(* Properties.  What the last operation was is read from result: every       *)
(* operation of the sequential specifications writes its own name there.     *)

\* the last operation was store_email, called directly or by POST /emails
IsStore(r) == r.op \in { "store_email", "POST /emails" }

\* the id a store operation returned, 0 when it returned none
AppendedId(r) ==
    CASE r.op = "store_email" -> r.id
      [] r.op = "POST /emails" -> r.email_id
      [] OTHER -> 0

\* a store operation ended with the invalid-ground-truth error
StoreRejected(r) ==
    CASE r.op = "store_email" -> r.raised = HTTP_422_UNPROCESSABLE_ENTITY
      [] r.op = "POST /emails" -> r.status = HTTP_422_UNPROCESSABLE_ENTITY
      [] OTHER -> FALSE

\* positions of the known topics that match a label case-insensitively
Matching(ts, label) == { i \in 1..Len(ts) : lower(ts[i]) = lower(label) }

\* |feature - len(description)| of the i-th topic, the feature defaulting to 0
TopicDistance(features, i) ==
    Abs(FeatureGet(features, EmbeddingKey, 0) - Len(topic_data[i].v.description))

\* C1: add_topic with a name that differs at most in letter case from a topic of
\* the store (also one loaded from the file with upper-case letters) fails with
\* the already-exists error and leaves the topic list as it was.
C1_CaseVariantRejected ==
    [][ (result'.op = "add_topic" /\ Matching(topics, result'.topic_name) # {})
        => (result'.raised /\ topics' = topics /\ topic_data' = topic_data) ]_vars

\* C9: after add_topic went through, the persisted topic file differs from the
\* file just before the write only in the entry of the new key: every other
\* entry another writer put there is still there with that writer's value.
C9_OnlyNewKeyWritten ==
    [][ (result'.op = "add_topic" /\ ~result'.raised)
        => LET key == lower(result'.topic_name)
           IN  /\ \A i \in 1..Len(topic_file) :
                      topic_file[i].k # key
                      => /\ Has(topic_file', topic_file[i].k)
                         /\ Get(topic_file', topic_file[i].k) = topic_file[i].v
               /\ \A j \in 1..Len(topic_file') :
                      topic_file'[j].k # key => Has(topic_file, topic_file'[j].k) ]_vars

\* C2 as claimed: an id returned by append was returned by no earlier append,
\* whatever records were deleted in between.
C2_IdNeverReassigned ==
    [][ AppendedId(result') > 0 => AppendedId(result') \notin assigned ]_vars

\* C2 as amended: an id returned by append differs from every id in the log at
\* that moment, and from every id returned earlier as long as no deletion has
\* removed the record that held the largest id.
C2_IdNotReassignedWhileMaxKept ==
    [][ AppendedId(result') > 0
        => /\ AppendedId(result') \notin Ids(read_emails(emails_file))
           /\ ~max_deleted => AppendedId(result') \notin assigned ]_vars

\* C2: an append after the deletion of a record that did not hold the largest id
C2_Witness ==
    /\ AppendedId(result) > 0
    /\ ~max_deleted
    /\ Len(read_emails(emails_file)) < Cardinality(assigned)

\* C3: from an empty or absent log, store operations one after another return
\* 1, 2, ..., and after each one the log is the log before it plus the stored
\* record at the end; an operation that returns no id leaves the log alone.
C3_SequentialIds ==
    [][ LET old == read_emails(emails_file)
            new == read_emails(emails_file')
        IN  /\ \A i \in 1..Len(new) : new[i].id = i
            /\ AppendedId(result') > 0
               => /\ AppendedId(result') = Len(old) + 1
                  /\ Len(new) = Len(old) + 1
                  /\ SubSeq(new, 1, Len(old)) = old
                  /\ new[Len(new)].id = AppendedId(result')
                  /\ new[Len(new)].subject = result'.email.subject
                  /\ new[Len(new)].body = result'.email.body
                  /\ new[Len(new)].features = result'.features
            /\ AppendedId(result') = 0 => new = old ]_vars

\* C3: the second store operation has returned 2 and the log holds two records
C3_Witness ==
    /\ AppendedId(result) = 2
    /\ Len(read_emails(emails_file)) = 2
    /\ emails_file.emails[1] # [emails_file.emails[2] EXCEPT !.id = 1]

\* C4 as claimed: a store with a (non-empty) label that matches a known topic
\* case-insensitively appends a record with that topic's stored name; with a
\* label that matches none it fails with the 422 error and the log is unchanged.
C4_MatchOrReject ==
    [][ (IsStore(result') /\ Truthy(result'.label))
        => LET m == Matching(topics', result'.label[1])
               new == read_emails(emails_file')
           IN  IF m # {}
               THEN /\ AppendedId(result') > 0
                    /\ \E i \in m : new[Len(new)].ground_truth_topic = Some(topics'[i])
               ELSE /\ StoreRejected(result')
                    /\ emails_file' = emails_file
                    /\ assigned' = assigned ]_vars

\* C4 as amended: the label is compared with leading and trailing whitespace
\* removed.  A non-empty label that, so stripped, matches a known topic case-insensitively is stored as the exact
\* stored name of the last such topic; one that matches none fails with the 422
\* error, no record is appended and no id is assigned.
C4_StrippedMatchOrReject ==
    [][ (IsStore(result') /\ Truthy(result'.label))
        => LET m == Matching(topics', strip(result'.label[1]))
               new == read_emails(emails_file')
           IN  IF m # {}
               THEN /\ AppendedId(result') > 0
                    /\ new[Len(new)].ground_truth_topic =
                           Some(topics'[CHOOSE i \in m : \A j \in m : j <= i])
               ELSE /\ StoreRejected(result')
                    /\ emails_file' = emails_file
                    /\ assigned' = assigned ]_vars

\* C4: the label "A" was stored as the topic's stored name "a"
C4_Witness ==
    /\ IsStore(result)
    /\ result.label = Some(<<"A">>)
    /\ AppendedId(result) > 0
    /\ emails_file.emails[Len(emails_file.emails)].ground_truth_topic = Some(<<"a">>)

\* C5: classify returns the classifier's prediction without use_store; with
\* use_store the nearest-neighbour label when there is one and the classifier's
\* prediction when there is none; the scores and the topics are the classifier's
\* either way.
C5_StorePreferred ==
    (result.op = "classify_email" /\ ~result.raised)
    => /\ result.predicted_topic =
              IF result.use_store /\ predict_from_store(result.features) # None
              THEN predict_from_store(result.features)[1]
              ELSE predict(result.features)
       /\ result.topic_scores = get_topic_scores(result.features)
       /\ result.available_topics = topics

\* C5: the nearest-neighbour label won over a different classifier prediction
C5_Witness ==
    /\ result.op = "classify_email"
    /\ ~result.raised
    /\ result.use_store
    /\ predict_from_store(result.features) # None
    /\ result.predicted_topic # predict(result.features)

\* C6: POST /emails/classify without use_store, with at least one topic in the
\* store, answers 200 with the classifier's prediction, scores and topics.
C6_RouteClassifySucceeds ==
    (result.op = "POST /emails/classify" /\ topics # <<>>)
    => /\ result.status = HTTP_200_OK
       /\ result.predicted_topic = predict(result.features)
       /\ result.topic_scores = get_topic_scores(result.features)
       /\ result.available_topics = topics

\* C7: predict fails when there is no topic, and otherwise returns the first
\* topic, in the store's order, whose description length is nearest to the
\* email's feature.
C7_PredictNearestFirst ==
    result.op = "classify_email"
    => IF topics = <<>> THEN result.raised
       ELSE /\ ~result.raised
            /\ \E i \in 1..Len(topics) :
                  /\ result.model_pred = topics[i]
                  /\ \A j \in 1..Len(topics) :
                         TopicDistance(result.features, i) <= TopicDistance(result.features, j)
                  /\ \A j \in 1..(i - 1) :
                         TopicDistance(result.features, i) < TopicDistance(result.features, j)

\* the stored records predict_from_history may answer with
Eligible(emails) ==
    { i \in 1..Len(emails) :
        /\ Truthy(emails[i].ground_truth_topic)
        /\ Has(emails[i].features, EmbeddingKey) }

StoreDistance(features, emails, i) ==
    Abs(Get(features, EmbeddingKey) - Get(emails[i].features, EmbeddingKey))

\* C8: for a query with the feature, the nearest-neighbour predictor returns the
\* label of the earliest stored record among those of least distance that have
\* a label and the feature; nothing when there is no such record, and nothing
\* when the query lacks the feature.
C8_NearestEarliest ==
    (result.op = "classify_email" /\ ~result.raised /\ result.use_store)
    => LET emails == read_emails(emails_file)
           f == result.features
       IN  IF ~Has(f, EmbeddingKey) \/ Eligible(emails) = {}
           THEN result.store_topic = None
           ELSE \E i \in Eligible(emails) :
                   /\ result.store_topic = emails[i].ground_truth_topic
                   /\ \A j \in Eligible(emails) :
                          /\ StoreDistance(f, emails, i) <= StoreDistance(f, emails, j)
                          /\ j < i => StoreDistance(f, emails, i) < StoreDistance(f, emails, j)

\* C8: two stored records are equally near, carry different labels, and the
\* earlier one's label was returned
C8_Witness ==
    /\ result.op = "classify_email"
    /\ ~result.raised
    /\ result.use_store
    /\ Has(result.features, EmbeddingKey)
    /\ LET emails == read_emails(emails_file)
       IN  /\ Len(emails) = 2
           /\ Eligible(emails) = { 1, 2 }
           /\ StoreDistance(result.features, emails, 1) = StoreDistance(result.features, emails, 2)
           /\ emails[1].ground_truth_topic # emails[2].ground_truth_topic
           /\ result.store_topic = emails[1].ground_truth_topic

\* the record caller p has written, with its id
Written(p) == [local[p].record EXCEPT !.id = local[p].id]

\* C10: when both callers have read the same log contents and both have
\* written, they have returned the same id and the log is what they read plus
\* the record of one of them only.
C10_LostUpdate ==
    (pc[1] = "done" /\ pc[2] = "done" /\ local[1].data = local[2].data)
    => /\ local[1].id = local[2].id
       /\ \E p \in Procs : emails_file = FileJson(Append(local[p].data, Written(p)))

\* C10: both callers read the same contents and stored different records
C10_Witness ==
    /\ pc[1] = "done"
    /\ pc[2] = "done"
    /\ local[1].data = local[2].data
    /\ local[1].record # local[2].record
    /\ local[1].id = local[2].id
    /\ Len(emails_file.emails) = Len(local[1].data) + 1

====
